---- MODULE Spec2Model ----
(***************************************************************************)
(* Thermostat Manager (rootfs/app/main.py): the snapshot/restore state     *)
(* machine behind /api/apply_offset, /api/set_temperature and /api/restore.*)
(* Temperatures are integers; the Home Assistant platform is the device    *)
(* table `target` plus a nondeterministic outcome for every request.       *)
(***************************************************************************)
EXTENDS Integers, FiniteSets, Sequences, TLC

\* ---------------------------------------------------------------- bounds
MaxTemp == 2        \* temperatures range over 0..MaxTemp
MaxOffset == 1      \* requested offsets range over -MaxOffset..MaxOffset
MaxRequests == 3    \* requests accepted in a run of concurrent requests

\* Python's None for an attribute the platform does not report.
None == -1

\* The climate entities the platform lists.
Devices == {"A", "B"}

Temps == 0..MaxTemp

\* Requested offsets, and requested absolute temperatures: missing, below
\* B's range, inside both ranges, above both ranges.
Offsets == (0 - MaxOffset)..MaxOffset
Temperatures == {None, 0, 1, MaxTemp + 1}

\* attrs.get("min_temp", 5) / attrs.get("max_temp", 30): platform data,
\* fixed per entity.  B has the narrower range.
min_temp == [d \in Devices |-> IF d = "A" THEN 0 ELSE 1]
max_temp == [d \in Devices |-> MaxTemp]

\* The "entity_ids" field of a request body: absent (None) or a list; "X" is
\* an id the platform does not list.
Selections ==
    {[given |-> FALSE, ids |-> {}]} \cup
    {[given |-> TRUE, ids |-> S] : S \in (SUBSET Devices) \cup {{"X"}}}

\* Truth value of `if selected_ids:`; None and the empty list are falsy.
Truthy(sel) == sel.given /\ sel.ids # {}

EmptyMap == [d \in {} |-> 0]

VARIABLES
    target,     \* platform: entity id -> target temperature, or None
    file,       \* ORIGINALS_PATH: [exists, data: entity id -> temperature]
    last,       \* the last request handled and its response
    orig,       \* history: the targets when the outstanding snapshot record
                \* was created (None for every entity while there is none)
    retry,      \* history: this restore follows a restore that had failures
    req,        \* step by step: each request thread's position and locals
    changed,    \* history: entities an adjustment has changed, not yet restored
    pre,        \* history: the target each of those had before the change
    added,      \* history: ids whose entry an adjustment saved, not yet restored
    started     \* history: the number of requests accepted so far

vars == <<target, file, last, orig, retry, req, changed, pre, added, started>>

\* ------------------------------------------------------- snapshot store
load_originals_NeverNone == [exists |-> TRUE, data |-> file.data]

load_originals == file

save_originals(originals) == [exists |-> TRUE, data |-> originals]

delete_originals == [exists |-> FALSE, data |-> EmptyMap]

\* `load_originals() or {}` / `if originals is None: originals = {}`
OrEmpty(f) == IF f.exists THEN f.data ELSE EmptyMap

\* ------------------------------------------------------- device gateway
\* get_climate_entities(): every climate entity, or [] on any error.
get_climate_entities(listing) == IF listing THEN Devices ELSE {}

\* set_temperature(entity_id, temperature) for a batch of entities: one
\* command record per entity, failing for the entities in `failing`.
Commands_AbortOnFailure(ids, value, failing) ==
    IF ids \cap failing = {}
    THEN {[id |-> e, temperature |-> value[e], ok |-> TRUE] : e \in ids}
    ELSE {[id |-> e, temperature |-> value[e], ok |-> FALSE] :
            e \in ids \cap failing}

Commands(ids, value, failing) ==
    {[id |-> e, temperature |-> value[e], ok |-> e \notin failing] : e \in ids}

\* The platform after a batch: a successful command sets the target.
Applied(cmds) ==
    [d \in Devices |->
        IF \E c \in cmds : c.id = d /\ c.ok
        THEN (CHOOSE c \in cmds : c.id = d /\ c.ok).temperature
        ELSE target[d]]

Failed(cmds) == {c.id : c \in {x \in cmds : ~x.ok}}

Succeeded(cmds) == {c.id : c \in {x \in cmds : x.ok}}

\* ---------------------------------------------------- adjustment engine
Adjustments == {"apply_offset", "set_temperature"}

\* Filter to selected entities if provided.
TargetEntities(entities, sel) ==
    IF Truthy(sel) THEN {e \in entities : e \in sel.ids} ELSE entities

\* Save originals (merge with existing if already present).
MergeOriginals_Overwrite(originals, target_entities) ==
    LET new == {e \in target_entities : target[e] # None}
    IN  [e \in DOMAIN originals \cup new |->
            IF e \in new THEN target[e] ELSE originals[e]]

MergeOriginals(originals, target_entities) ==
    LET new == {e \in target_entities :
                    target[e] # None /\ e \notin DOMAIN originals}
    IN  [e \in DOMAIN originals \cup new |->
            IF e \in DOMAIN originals THEN originals[e] ELSE target[e]]

\* max(entity["min_temp"], min(entity["max_temp"], new_temp))
Min(a, b) == IF a <= b THEN a ELSE b
Max(a, b) == IF a >= b THEN a ELSE b
Clamp_NoUpper(lo, hi, t) == Max(lo, t)

Clamp(lo, hi, t) == Max(lo, Min(hi, t))

\* `if offset == 0`
ZeroOffset_Never(offset) == FALSE

ZeroOffset(offset) == offset = 0

Response(op, arg, sel, success, error, cmds) ==
    [op |-> op, arg |-> arg, sel |-> sel, success |-> success,
     error |-> error, applied |-> Cardinality(Succeeded(cmds)),
     errors |-> Failed(cmds), cmds |-> cmds]

Rejected_AfterSave(op, arg, sel, error) ==
    /\ last' = Response(op, arg, sel, FALSE, error, {})
    /\ file' = save_originals(OrEmpty(file))
    /\ orig' = IF file.exists THEN orig ELSE target
    /\ UNCHANGED target

Rejected(op, arg, sel, error) ==
    /\ last' = Response(op, arg, sel, FALSE, error, {})
    /\ UNCHANGED <<target, file, orig>>

\* History: the targets at the moment the snapshot record is created are the
\* baseline of the campaign; the baseline is forgotten with the record.
NoBaseline == [d \in Devices |-> None]

History(new_file) ==
    orig' = IF ~new_file.exists THEN NoBaseline
            ELSE IF ~file.exists THEN target
            ELSE orig

apply_offset(offset, sel, listing, failing) ==
    IF ZeroOffset(offset)
    THEN Rejected("apply_offset", offset, sel, "zero_offset")
    ELSE
    LET entities == get_climate_entities(listing)
        target_entities == TargetEntities(entities, sel)
        originals == MergeOriginals(OrEmpty(load_originals), target_entities)
        known == {e \in target_entities : target[e] # None}
        new_temp == [e \in known |->
                        Clamp(min_temp[e], max_temp[e], target[e] + offset)]
        cmds == Commands(known, new_temp, failing)
    IN  IF target_entities = {}
        THEN Rejected("apply_offset", offset, sel, "no_targets")
        ELSE /\ file' = save_originals(originals)
             /\ target' = Applied(cmds)
             /\ last' = Response("apply_offset", offset, sel, TRUE, "", cmds)
             /\ History(save_originals(originals))

set_absolute_temperature(temperature, sel, listing, failing) ==
    IF temperature = None
    THEN Rejected("set_temperature", temperature, sel, "no_temperature")
    ELSE
    LET entities == get_climate_entities(listing)
        target_entities == TargetEntities(entities, sel)
        originals == MergeOriginals(OrEmpty(load_originals), target_entities)
        new_temp == [e \in target_entities |->
                        Clamp(min_temp[e], max_temp[e], temperature)]
        cmds == Commands(target_entities, new_temp, failing)
    IN  IF target_entities = {}
        THEN Rejected("set_temperature", temperature, sel, "no_targets")
        ELSE /\ file' = save_originals(originals)
             /\ target' = Applied(cmds)
             /\ last' = Response("set_temperature", temperature, sel, TRUE, "", cmds)
             /\ History(save_originals(originals))

\* ------------------------------------------------------- restore engine
\* Determine which to restore.
ToRestore(originals, sel) ==
    IF Truthy(sel)
    THEN [e \in {x \in DOMAIN originals : x \in sel.ids} |-> originals[e]]
    ELSE originals

\* `for eid in to_restore: originals.pop(eid, None)`
Remaining_KeepAll(originals, to_restore) == originals

Remaining(originals, to_restore) ==
    [e \in DOMAIN originals \ DOMAIN to_restore |-> originals[e]]

\* Remove restored entries from originals: `if not errors:` pop them, then
\* `if originals: save_originals(originals) else: delete_originals()`.
\* With any error the record is left as it is.
StoreAfterRestore_IgnoreErrors(originals, to_restore, errors) ==
    IF DOMAIN Remaining(originals, to_restore) # {}
    THEN save_originals(Remaining(originals, to_restore))
    ELSE delete_originals

StoreAfterRestore_KeepRecord(originals, to_restore, errors) ==
    IF errors # {} THEN file
    ELSE save_originals(Remaining(originals, to_restore))

StoreAfterRestore(originals, to_restore, errors) ==
    IF errors # {} THEN file
    ELSE IF DOMAIN Remaining(originals, to_restore) # {}
         THEN save_originals(Remaining(originals, to_restore))
         ELSE delete_originals

restore(sel, failing) ==
    IF ~load_originals.exists
    THEN Rejected("restore", None, sel, "no_snapshot")
    ELSE
    LET originals == load_originals.data
        to_restore == ToRestore(originals, sel)
        cmds == Commands(DOMAIN to_restore, to_restore, failing)
        errors == Failed(cmds)
        new_file == StoreAfterRestore(originals, to_restore, errors)
    IN  /\ file' = new_file
        /\ target' = Applied(cmds)
        /\ last' = Response("restore", None, sel, TRUE, "", cmds)
        /\ History(new_file)

\* ------------------------------------------------------ status reporter
\* `len(originals) if originals else 0` with `originals is not None`
status_NoCount(f) == [offset_active |-> f.exists, saved_count |-> 0]

status(f) ==
    [offset_active |-> f.exists,
     saved_count |-> IF f.exists /\ DOMAIN f.data # {}
                     THEN Cardinality(DOMAIN f.data) ELSE 0]

\* GET /api/status: reads the record and reports it.
status_request ==
    /\ last' = [op |-> "status", arg |-> None,
                sel |-> [given |-> FALSE, ids |-> {}], success |-> TRUE,
                error |-> "", applied |-> 0, errors |-> {}, cmds |-> {},
                body |-> status(load_originals)]
    /\ UNCHANGED <<target, file, orig>>

\* GET /api/thermostats: the listed entities, each with its original
\* temperature when the record holds one for it.
get_thermostats(listing) ==
    LET entities == get_climate_entities(listing)
        originals == load_originals
    IN  /\ last' = [op |-> "get_thermostats", arg |-> None,
                    sel |-> [given |-> FALSE, ids |-> {}], success |-> TRUE,
                    error |-> "", applied |-> 0, errors |-> {}, cmds |-> {},
                    body |-> [e \in entities |->
                        [target_temperature |-> target[e],
                         original_temperature |->
                            IF originals.exists /\ e \in DOMAIN originals.data
                            THEN originals.data[e] ELSE None]]]
        /\ UNCHANGED <<target, file, orig>>

\* ------------------------------------------- the handlers, step by step
\* The same handlers with one step per access to the platform or to the
\* record, so that a crash or another request can fall between two accesses.
\* app.run() serves each request in its own thread and nothing in main.py
\* locks the record.  A request that is rejected, or whose listing comes back
\* empty, touches nothing and is left out.
Threads == {1, 2}

StepOffsets == {-1, 1}
StepTemperatures == {1}
StepSelections ==
    {[given |-> FALSE, ids |-> {}]} \cup
    {[given |-> TRUE, ids |-> {d}] : d \in Devices}

Idle ==
    [pc |-> "idle", op |-> "none", arg |-> None,
     sel |-> [given |-> FALSE, ids |-> {}],
     entities |-> NoBaseline, originals |-> delete_originals,
     todo |-> {}, sent |-> {}, errors |-> FALSE, saved |-> FALSE]

NoRequests ==
    /\ req = [t \in Threads |-> Idle]
    /\ changed = {}
    /\ pre = NoBaseline
    /\ added = {}
    /\ started = 0

\* -------------------------------------------------------- specification
\* No snapshot record; every reported target lies within the entity's range.
\* A always reports a target, B may report none.
Init ==
    /\ target \in [Devices -> {None} \cup Temps]
    /\ \A d \in Devices :
          target[d] # None => min_temp[d] <= target[d] /\ target[d] <= max_temp[d]
    /\ target["A"] # None
    /\ file = delete_originals
    /\ last = Response("init", None, [given |-> FALSE, ids |-> {}], TRUE, "", {})
    /\ orig = NoBaseline
    /\ retry = FALSE
    /\ NoRequests

ApplyOffset ==
    \E offset \in Offsets, sel \in Selections,
       listing \in BOOLEAN :
      \E failing \in SUBSET TargetEntities(get_climate_entities(listing), sel) :
        apply_offset(offset, sel, listing, failing)

SetAbsoluteTemperature ==
    \E temperature \in Temperatures, sel \in Selections,
       listing \in BOOLEAN :
      \E failing \in SUBSET TargetEntities(get_climate_entities(listing), sel) :
        set_absolute_temperature(temperature, sel, listing, failing)

Restore ==
    \E sel \in Selections :
      \E failing \in SUBSET DOMAIN ToRestore(file.data, sel) :
        restore(sel, failing)

Status == status_request

GetThermostats == \E listing \in BOOLEAN : get_thermostats(listing)

\* History: the request is a restore and the one before it was a restore in
\* which some command failed.
Retry ==
    retry' = (last.op = "restore" /\ last.errors # {} /\ last'.op = "restore")

\* A command that is never sent cannot fail, so `failing` ranges over the
\* entities the request can reach.
Next ==
    /\ \/ ApplyOffset
       \/ SetAbsoluteTemperature
       \/ Restore
       \/ Status
       \/ GetThermostats
    /\ Retry
    /\ UNCHANGED <<req, changed, pre, added, started>>

Spec == Init /\ [][Next]_vars

\* The order of the statements of apply_offset and set_absolute_temperature
\* after the record is loaded: save_originals, then the command loop.
PcAfter_CommandsFirst(pc) ==
    CASE pc = "load" -> "send"
      [] pc = "send" -> "save"
      [] OTHER -> "idle"

PcAfter(pc) ==
    CASE pc = "load" -> "save"
      [] pc = "save" -> "send"
      [] OTHER -> "idle"

\* A command loop over nothing is passed at once.
RECURSIVE Goto(_, _)
Goto(r, pc) ==
    IF pc = "send" /\ r.todo = {} THEN Goto(r, PcAfter(pc))
    ELSE IF pc = "idle" THEN Idle
    ELSE [r EXCEPT !.pc = pc]

\* `entity["target_temperature"] is not None and entity["entity_id"] not in
\* originals`, on the entities as this request listed them.
MergeListed(originals, entities, ids) ==
    LET new == {e \in ids : entities[e] # None /\ e \notin DOMAIN originals}
    IN  [e \in DOMAIN originals \cup new |->
            IF e \in DOMAIN originals THEN originals[e] ELSE entities[e]]

\* The platform lists its entities in one order; a loop takes them in it.
FirstOf(ids) == CHOOSE d \in ids : TRUE

\* A request is served by the first thread that is free.
Free(t) ==
    /\ req[t].pc = "idle"
    /\ \A u \in Threads : u < t => req[u].pc # "idle"

\* An adjustment arrives and lists the entities (main.py:168, 230).
StartAdjustment(t) ==
    /\ Free(t)
    /\ \E op \in Adjustments, sel \in StepSelections :
         \E arg \in IF op = "apply_offset" THEN StepOffsets ELSE StepTemperatures :
            req' = [req EXCEPT ![t] =
                      [Idle EXCEPT !.pc = "load", !.op = op, !.arg = arg,
                                   !.sel = sel, !.entities = target]]
    /\ UNCHANGED <<target, file, changed, pre, added>>

\* load_originals() of an adjustment (main.py:169, 243); the targets are
\* resolved from the listing (an offset skips unknown targets in its loop).
LoadAdjustment(t) ==
    /\ req[t].pc = "load"
    /\ req[t].op \in Adjustments
    /\ LET r == req[t]
           ids == TargetEntities(Devices, r.sel)
           todo == IF r.op = "apply_offset"
                   THEN {e \in ids : r.entities[e] # None} ELSE ids
       IN  req' = [req EXCEPT ![t] =
                     Goto([r EXCEPT !.originals = load_originals, !.todo = todo],
                          PcAfter("load"))]
    /\ UNCHANGED <<target, file, changed, pre, added>>

\* save_originals(originals) of an adjustment (main.py:187, 247).
SaveAdjustment(t) ==
    /\ req[t].pc = "save"
    /\ LET r == req[t]
           old == OrEmpty(r.originals)
           originals == MergeListed(old, r.entities, TargetEntities(Devices, r.sel))
       IN  /\ file' = save_originals(originals)
           /\ added' = added \cup (DOMAIN originals \ DOMAIN old)
           /\ req' = [req EXCEPT ![t] =
                         Goto([r EXCEPT !.saved = TRUE], PcAfter("save"))]
    /\ UNCHANGED <<target, changed, pre>>

\* One set_temperature call of an adjustment's loop (main.py:196-204,
\* 253-258).
SendAdjustment(t) ==
    /\ req[t].pc = "send"
    /\ req[t].op \in Adjustments
    /\ \E ok \in BOOLEAN :
         LET r == req[t]
             e == FirstOf(r.todo)
             new_temp ==
                 Clamp(min_temp[e], max_temp[e],
                       IF r.op = "apply_offset"
                       THEN r.entities[e] + r.arg ELSE r.arg)
             after == [r EXCEPT !.todo = r.todo \ {e},
                                !.sent = r.sent \cup {e},
                                !.errors = r.errors \/ ~ok]
         IN  /\ req' = [req EXCEPT ![t] = Goto(after, "send")]
             /\ IF ok
                THEN /\ target' = [target EXCEPT ![e] = new_temp]
                     /\ changed' = changed \cup {e}
                     /\ pre' = IF e \in changed THEN pre
                               ELSE [pre EXCEPT ![e] = target[e]]
                ELSE UNCHANGED <<target, changed, pre>>
    /\ UNCHANGED <<file, added>>

\* A restore arrives and loads the record (main.py:278-287).
StartRestore(t) ==
    /\ Free(t)
    /\ load_originals.exists
    /\ \E sel \in StepSelections :
         LET to_restore == ToRestore(load_originals.data, sel)
             r == [Idle EXCEPT !.op = "restore", !.sel = sel,
                               !.originals = load_originals,
                               !.todo = DOMAIN to_restore]
         IN  req' = [req EXCEPT ![t] =
                       IF r.todo = {} THEN [r EXCEPT !.pc = "prune"]
                       ELSE [r EXCEPT !.pc = "send"]]
    /\ UNCHANGED <<target, file, changed, pre, added>>

\* One set_temperature call of the restore loop (main.py:292-297).
SendRestore(t) ==
    /\ req[t].pc = "send"
    /\ req[t].op = "restore"
    /\ \E ok \in BOOLEAN :
         LET r == req[t]
             e == FirstOf(r.todo)
             after == [r EXCEPT !.todo = r.todo \ {e},
                                !.sent = r.sent \cup {e},
                                !.errors = r.errors \/ ~ok]
         IN  /\ req' = [req EXCEPT ![t] =
                           IF after.todo = {} THEN [after EXCEPT !.pc = "prune"]
                           ELSE after]
             /\ IF ok
                THEN /\ target' = [target EXCEPT ![e] = r.originals.data[e]]
                     /\ changed' = changed \ {e}
                     /\ pre' = [pre EXCEPT ![e] = None]
                     /\ added' = added \ {e}
                ELSE UNCHANGED <<target, changed, pre, added>>
    /\ UNCHANGED file

\* Remove restored entries from originals (main.py:299-306), on the mapping
\* this request loaded.
PruneRestore(t) ==
    /\ req[t].pc = "prune"
    /\ LET r == req[t]
           remaining == Remaining(r.originals.data, ToRestore(r.originals.data, r.sel))
       IN  file' = IF r.errors THEN file
                   ELSE IF DOMAIN remaining # {} THEN save_originals(remaining)
                   ELSE delete_originals
    /\ req' = [req EXCEPT ![t] = Idle]
    /\ UNCHANGED <<target, changed, pre, added>>

\* The process dies and is started again: every request in flight is gone,
\* the record and the platform stay as they are.
Crash ==
    /\ \E t \in Threads : req[t].pc # "idle"
    /\ req' = [t \in Threads |-> Idle]
    /\ UNCHANGED <<target, file, changed, pre, added>>

Step(t) ==
    \/ LoadAdjustment(t)
    \/ SaveAdjustment(t)
    \/ SendAdjustment(t)
    \/ SendRestore(t)
    \/ PruneRestore(t)

AllIdle == \A t \in Threads : req[t].pc = "idle"

\* One request at a time, which a crash may cut short.
NextSeq ==
    /\ \/ \E t \in Threads : AllIdle /\ StartAdjustment(t)
       \/ \E t \in Threads : AllIdle /\ StartRestore(t)
       \/ \E t \in Threads : Step(t)
       \/ Crash
    /\ UNCHANGED <<last, orig, retry, started>>

SpecSeq == Init /\ [][NextSeq]_vars

\* Two request threads, every entity reporting a target.
InitConc == Init /\ \A d \in Devices : target[d] # None

Accept == started < MaxRequests /\ started' = started + 1

NextConc ==
    /\ \/ \E t \in Threads : StartAdjustment(t) /\ Accept
       \/ \E t \in Threads : StartRestore(t) /\ Accept
       \/ \E t \in Threads : Step(t) /\ UNCHANGED started
    /\ UNCHANGED <<last, orig, retry>>

SpecConc == InitConc /\ [][NextConc]_vars

\* ------------------------------------------------------------ properties
RestoreAll(r) == r.op = "restore" /\ r.success /\ ~Truthy(r.sel)

\* C1: a snapshot entry is never overwritten: every step keeps the value of
\* every entry that survives it, an adjustment (offset or absolute, any
\* selection) keeps every entry, and only a restore removes one.
C1_BaselineNotOverwritten ==
    [][\A d \in DOMAIN file.data :
          /\ d \in DOMAIN file'.data => file'.data[d] = file.data[d]
          /\ last'.op \in Adjustments => file'.exists /\ d \in DOMAIN file'.data
          /\ d \notin DOMAIN file'.data => last'.op = "restore"]_vars

\* An offset was applied to an entity whose target had already been moved
\* away from its recorded original, and the original is still recorded.
C1_Witness ==
    /\ last.op = "apply_offset"
    /\ \E c \in last.cmds :
          /\ c.ok
          /\ c.id \in DOMAIN file.data
          /\ orig[c.id] = file.data[c.id]
          /\ c.temperature #
                Clamp(min_temp[c.id], max_temp[c.id], orig[c.id] + last.arg)

\* C2: after a restore no entry whose command succeeded is left in the
\* snapshot, also when another command of the same restore failed; with a
\* partial failure the status count is the number of failed entries.
C2_RestoreRemovesSucceeded ==
    last.op = "restore" /\ last.success =>
        /\ \A c \in last.cmds : c.ok => c.id \notin DOMAIN file.data
        /\ last.errors # {} =>
              status(file) = [offset_active |-> TRUE,
                              saved_count |-> Cardinality(last.errors)]

\* C3: the snapshot record exists only while it holds at least one entry,
\* so the status never reports an active snapshot with a count of 0.
C3_RecordHasEntries ==
    /\ file.exists => DOMAIN file.data # {}
    /\ status(file).offset_active => status(file).saved_count > 0

C5_Clamped ==
    last.op \in Adjustments =>
        \A c \in last.cmds :
            min_temp[c.id] <= max_temp[c.id] =>
                min_temp[c.id] <= c.temperature /\ c.temperature <= max_temp[c.id]

\* An absolute temperature above every range was requested and the upper
\* bound was sent instead.
C5_Witness ==
    /\ last.op = "set_temperature"
    /\ last.arg > MaxTemp
    /\ \E c \in last.cmds : c.temperature = max_temp[c.id]

\* C6: a restore given a list of ids keeps every entry whose id is not in
\* the list, with its value, and sends no command to such an entity.
C6_SelectiveRestoreFrame ==
    [][(last'.op = "restore" /\ last'.sel.given) =>
          \A d \in Devices \ last'.sel.ids :
              /\ d \in DOMAIN file.data =>
                    d \in DOMAIN file'.data /\ file'.data[d] = file.data[d]
              /\ \A c \in last'.cmds : c.id # d]_vars

\* C7: an entry whose command failed during a restore is still recorded
\* after the restore, with the value it had before.
C7_FailedEntriesKept ==
    [][last'.op = "restore" =>
          \A c \in last'.cmds :
              ~c.ok => /\ c.id \in DOMAIN file.data
                       /\ file'.exists
                       /\ c.id \in DOMAIN file'.data
                       /\ file'.data[c.id] = file.data[c.id]]_vars

\* A restore of two entries in which exactly one command failed.
C7_Witness ==
    /\ last.op = "restore"
    /\ last.applied = 1
    /\ \E c \in last.cmds :
          ~c.ok /\ c.id \in DOMAIN file.data /\ file.data[c.id] = c.temperature

\* C8: an offset of 0 is rejected, sends no command and leaves the snapshot
\* record and every target as they were.
C8_ZeroOffsetRejected ==
    [][(last'.op = "apply_offset" /\ last'.arg = 0) =>
          /\ ~last'.success
          /\ last'.cmds = {}
          /\ file' = file
          /\ target' = target]_vars

\* An offset of 0 was rejected while a snapshot was outstanding.
C8_Witness ==
    /\ last.op = "apply_offset"
    /\ last.arg = 0
    /\ last.error = "zero_offset"
    /\ file.exists
    /\ DOMAIN file.data # {}

\* C9: an adjustment, offset or absolute, sends no command to an entity
\* whose target is unknown, records no entry for it and counts it neither
\* as applied nor as an error.
C9_UnknownTargetSkipped ==
    [][last'.op \in Adjustments =>
          \A d \in Devices :
              target[d] = None =>
                  /\ \A c \in last'.cmds : c.id # d
                  /\ d \notin DOMAIN file'.data
                  /\ d \notin last'.errors]_vars

\* C10: a restore given a list that names no entry of the existing snapshot
\* is rejected as "no targets", sends no command and leaves the record as
\* it was.
C10_EmptyRestoreSetRejected ==
    [][(last'.op = "restore" /\ file.exists /\ last'.sel.given
            /\ last'.sel.ids \cap DOMAIN file.data = {}) =>
          /\ ~last'.success
          /\ last'.error = "no_targets"
          /\ last'.cmds = {}
          /\ file' = file]_vars

\* The entities an accepted adjustment works on, as the request names them.
Batch(r) == IF Truthy(r.sel) THEN Devices \cap r.sel.ids ELSE Devices

ValidArg(r) ==
    /\ r.op = "apply_offset" => r.arg # 0
    /\ r.op = "set_temperature" => r.arg # None

Ids(cmds) == {c.id : c \in cmds}

\* C11: an adjustment given a list of ids sends commands and adds snapshot
\* entries only for listed ids, and is rejected as "no targets" when the
\* list names no listed entity, the empty list included.
C11_SelectionScopesAdjustment ==
    [][(last'.op \in Adjustments /\ last'.sel.given /\ ValidArg(last')) =>
          /\ Ids(last'.cmds) \subseteq last'.sel.ids
          /\ DOMAIN file'.data \ DOMAIN file.data \subseteq last'.sel.ids
          /\ Devices \cap last'.sel.ids = {} =>
                ~last'.success /\ last'.error = "no_targets"]_vars

\* C12: a failed command does not stop the batch: every entity of the batch
\* of an accepted adjustment or restore gets its command whichever commands
\* fail, the failures are reported, and the response is still a success.
C12_FailureDoesNotAbortBatch ==
    [][/\ (last'.op = "apply_offset" /\ last'.success) =>
            Ids(last'.cmds) = {d \in Batch(last') : target[d] # None}
       /\ (last'.op = "set_temperature" /\ last'.success) =>
            Ids(last'.cmds) = Batch(last')
       /\ (last'.op = "restore" /\ last'.success) =>
            Ids(last'.cmds) = DOMAIN file.data \cap Batch(last')
       /\ last'.errors = {c.id : c \in {x \in last'.cmds : ~x.ok}}
       /\ last'.errors # {} => last'.success]_vars

\* An absolute adjustment of both entities in which one command failed and
\* the other was still applied.
C12_Witness ==
    /\ last.op = "set_temperature"
    /\ last.success
    /\ last.applied = 1
    /\ Cardinality(last.errors) = 1

C14_RestoreWithoutSnapshot ==
    [][(last'.op = "restore" /\ ~file.exists) =>
          /\ ~last'.success
          /\ last'.error = "no_snapshot"
          /\ last'.cmds = {}
          /\ ~file'.exists
          /\ target' = target]_vars

\* A restore naming an entity was refused because nothing is outstanding.
C14_Witness ==
    /\ last.op = "restore"
    /\ last.error = "no_snapshot"
    /\ Truthy(last.sel)
    /\ ~file.exists

\* C15: the status reports whether the record exists and how many entries
\* it holds, and neither the status nor the thermostat list sends a command
\* or changes the record.
C15_StatusPureRead ==
    [][/\ last'.op = "status" =>
            last'.body =
                [offset_active |-> file.exists,
                 saved_count |-> IF file.exists
                                 THEN Cardinality(DOMAIN file.data) ELSE 0]
       /\ last'.op \in {"status", "get_thermostats"} =>
            /\ last'.cmds = {}
            /\ file' = file
            /\ target' = target]_vars

\* The status was read while both entities had an entry.
C15_Witness ==
    /\ last.op = "status"
    /\ last.body.offset_active
    /\ last.body.saved_count = Cardinality(Devices)
    /\ file.exists

\* C16: within every applyOffset and applyAbsolute call the snapshot is
\* persisted before that call's first set-temperature command: a call that
\* has issued a command has already saved.
C16_SnapshotBeforeCommand ==
    \A t \in Threads :
        req[t].op \in Adjustments /\ req[t].sent # {} => req[t].saved

\* An adjustment is between two of its commands.
C16_Witness ==
    \E t \in Threads :
        /\ req[t].op \in Adjustments
        /\ req[t].sent # {}
        /\ req[t].todo # {}
        /\ req[t].saved

\* C17: at every point of an adjustment, and after a crash between any two of
\* its steps, every device an adjustment has changed and that has not been
\* restored since has an entry in the persisted snapshot holding its
\* pre-change target.
C17_CrashSafeRestorable ==
    \A d \in changed :
        /\ file.exists
        /\ d \in DOMAIN file.data
        /\ file.data[d] = pre[d]

\* C18: when concurrent requests have all completed, the persisted snapshot
\* contains every entry an adjustment added that was not successfully
\* restored; no request's save or delete drops another request's entry.
C18_NoLostUpdates ==
    AllIdle => added \subseteq DOMAIN file.data

\* C19: when concurrent requests have all completed, every snapshot entry
\* equals the target its device had when no adjustment was outstanding on it:
\* the pre-change target of a changed device, the present target otherwise.
C19_TrueBaseline ==
    AllIdle =>
        \A d \in DOMAIN file.data :
            file.data[d] = IF d \in changed THEN pre[d] ELSE target[d]

====
